---------------------------- MODULE Spec2Model ----------------------------
(***************************************************************************)
(* A model of hack/image-upload.py: the conditional upload of an OVA and   *)
(* its sha256 sidecar to the capv-images bucket.                           *)
(*                                                                         *)
(* Text (file contents, HTTP bodies, version strings) is a sequence of     *)
(* one-character strings.  One run of main() is a process p; its position  *)
(* is pc[p].  The bucket, and the machine's gcloud credential store, are   *)
(* shared by all runs.                                                     *)
(***************************************************************************)
EXTENDS Integers, Sequences, FiniteSets, TLC

VARIABLES
    manifest,         \* packer-manifest.json: [name, version]
    lcl,              \* lcl[p]: the build directory of run p: [ova, sum]
    remote,           \* the destination in the bucket: [ova, sum]
    cred,             \* gcloud's credential store holds an active account
    pc,               \* pc[p]: where run p is in main()
    dest,             \* dest[p]: upload_dir / url_ova as computed by run p
    lcl_ova_sum_val,  \* main's local of that name
    rem_ova_sum_val,  \* main's local of that name
    resp,             \* the outcome of requests.get in run p
    registered,       \* atexit holds deactivate_service_account
    exc,              \* the exception that left main(), or "none"
    log,              \* the external commands run p has invoked, in order
    reported,         \* the "download from" URL the run printed
    status,           \* exit status of the run; -1 while it is running
    runs,             \* number of runs started so far
    stable,           \* the last run published in full and the build
                      \* directory has not changed since
    faults            \* the network and the tools may fail on their own

vars == <<manifest, lcl, remote, cred, pc, dest, lcl_ova_sum_val,
          rem_ova_sum_val, resp, registered, exc, log, reported, status,
          runs, stable, faults>>

-----------------------------------------------------------------------------
(* Bounds *)

\* longest sidecar file
MaxLen == 3
\* longest enumerated version string
MaxVerLen == 6
\* number of successive runs of the script
MaxRuns == 3

Procs == {1, 2}

Strings(A, n) == UNION {[1..k -> A] : k \in 0..n}

-----------------------------------------------------------------------------
(* Text *)

\* the characters str.strip() removes, among those of the model's alphabets
Whitespace == {" ", "\n"}

RECURSIVE LStrip(_)
LStrip(s) ==
    IF Len(s) > 0 /\ s[1] \in Whitespace THEN LStrip(Tail(s)) ELSE s

RECURSIVE RStrip(_)
RStrip(s) ==
    IF Len(s) > 0 /\ s[Len(s)] \in Whitespace
    THEN RStrip(SubSeq(s, 1, Len(s) - 1))
    ELSE s

\* str.strip()
Strip(s) == RStrip(LStrip(s))

\* file.readline(): up to and including the first newline
ReadLine(s) ==
    LET nl == {i \in 1..Len(s) : s[i] = "\n"}
    IN  IF nl = {} THEN s
        ELSE SubSeq(s, 1, CHOOSE i \in nl : \A j \in nl : i <= j)

\* an optional string: Python's None is [some |-> FALSE]
None == [some |-> FALSE, val |-> <<>>]
Some(s) == [some |-> TRUE, val |-> s]

-----------------------------------------------------------------------------
(* Destination: main(), lines 67-88 *)

Digit == {"0", "1", "2", "3", "4", "5", "6", "7", "8", "9"}

\* positions after one character of C, starting from the positions P
One(s, P, C) == {p + 1 : p \in {q \in P : q <= Len(s) /\ s[q] \in C}}

\* positions after zero or one character of C
Opt(s, P, C) == P \cup One(s, P, C)

\* positions after one or more characters of C
Many1(s, P, C) ==
    {q \in 2..(Len(s) + 1) :
        \E p \in P : p < q /\ \A i \in p..(q - 1) : s[i] \in C}

\* "$" without re.MULTILINE: at the end, or just before a final newline
AtDollar(s, P) ==
    \E p \in P : \/ p = Len(s) + 1
                 \/ p = Len(s) /\ s[p] = "\n"

\* the patch component of the pattern: \d
PatchDigits(s, P) == One(s, P, Digit)

\* re.match(r'^v?\d+\.\d+\.\d(-\d+)?$', s)
ReleaseMatch(s) ==
    LET p0 == Opt(s, {1}, {"v"})
        p1 == Many1(s, p0, Digit)
        p2 == One(s, p1, {"."})
        p3 == Many1(s, p2, Digit)
        p4 == One(s, p3, {"."})
        p5 == PatchDigits(s, p4)
        p6 == p5 \cup Many1(s, One(s, p5, {"-"}), Digit)
    IN  AtDollar(s, p6)

UploadDir(version) == IF ReleaseMatch(version) THEN "release" ELSE "ci"

\* rem_ova
RemOva(name, version) == <<name, "-kube-", version, ".ova">>

\* gcs_ova and gcs_ova_sum
GcsOva(m) ==
    <<"gs://capv-images", UploadDir(m.version), m.version,
      RemOva(m.name, m.version)>>
GcsOvaSum(m) == Append(GcsOva(m), ".sha256")

\* url_ova and url_ova_sum
UrlOva(m) ==
    <<"http://storage.googleapis.com/capv-images", UploadDir(m.version),
      m.version, RemOva(m.name, m.version)>>
UrlOvaSum(m) == Append(UrlOva(m), ".sha256")

NoUrl == <<>>


-----------------------------------------------------------------------------
(* Files, bucket objects and builds *)

Absent == [exists |-> FALSE, text |-> <<>>]
File(t) == [exists |-> TRUE, text |-> t]

\* the OVAs a Packer build may produce, each named by its sha256
Artifacts == {"a", "b"}
NoOva == "none"
Digest(a) == <<a>>

FileAlphabet == {"a", "b", " ", "\n"}
Files == Strings(FileAlphabet, MaxLen)

\* get_local_checksum on an open file
get_local_checksum(text) == Strip(ReadLine(text))

\* a variant that returns r.text as it came
get_remote_checksum_unstripped(r) ==
    IF r.status_code >= 200 /\ r.status_code <= 299
    THEN Some(r.text)
    ELSE None

\* the body of get_remote_checksum after requests.get returned r
get_remote_checksum(r) ==
    IF r.status_code >= 200 /\ r.status_code <= 299
    THEN Some(Strip(r.text))
    ELSE None

\* a build directory: the OVA and a sidecar whose first line holds its sha256
\* the layouts of a sidecar: "#" stands for the checksum, which is what the
\* first line holds
Templates ==
    {t \in Strings(FileAlphabet \cup {"#"}, MaxLen) :
        /\ Cardinality({i \in 1..Len(t) : t[i] = "#"}) = 1
        /\ get_local_checksum(t) = <<"#">>}

\* the sidecar of layout t for the OVA a
Sidecar(t, a) == [i \in 1..Len(t) |-> IF t[i] = "#" THEN a ELSE t[i]]

Build(t, a) == [ova |-> a, sum |-> File(Sidecar(t, a))]

Builds == {Build(t, a) : t \in Templates, a \in Artifacts}

\* a sidecar holding the checksum and nothing else
PlainBuilds == {[ova |-> a, sum |-> File(Digest(a))] : a \in Artifacts}

\* a build directory in which Packer has produced nothing
Unbuilt == [ova |-> NoOva, sum |-> Absent]

EmptyRemote == [ova |-> NoOva, sum |-> Absent]

-----------------------------------------------------------------------------
(* The outside world *)

NoResp == [kind |-> "none", status_code |-> 0, text |-> <<>>]

\* what requests.get(url_ova_sum) may do when the bucket holds r
HttpOutcomes(r) ==
    { IF r.sum.exists
      THEN [kind |-> "response", status_code |-> 200, text |-> r.sum.text]
      ELSE [kind |-> "response", status_code |-> 404, text |-> <<>>] }
    \cup
    IF faults
    THEN { [kind |-> "response", status_code |-> 500, text |-> <<>>],
           [kind |-> "ConnectionError", status_code |-> 0, text |-> <<>>] }
    ELSE {}

\* exit statuses of gcloud and of gsutil
ToolRcs == {0, 1, 2}

\* what gcloud auth may exit with
GcloudRcs == IF faults THEN {0, 1} ELSE {0}

\* what gsutil cp may exit with: it needs the active credential, and fails
\* without it
CopyRcs(active) ==
    IF ~active THEN {1}
    ELSE IF faults THEN ToolRcs
    ELSE {0}

\* one external command of a run: what, its exit status, and whether the
\* credential store held an active account when it ran
Call(op, rc) == [op |-> op, rc |-> rc, auth |-> cred]

\* the interpreter's exit status: 1 after an uncaught exception
ExitStatus(e) == IF e = "none" THEN 0 ELSE 1

-----------------------------------------------------------------------------
(* Initial states *)

NoDest == [upload_dir |-> "", gcs_ova |-> <<>>, url_ova |-> <<>>]

\* the manifest of the runs: a release build
ReleaseManifest ==
    [name |-> "ubuntu", version |-> <<"v", "1", ".", "2", ".", "3">>]

\* everything but the manifest and the build directories
InitRun ==
    /\ remote = EmptyRemote
    /\ cred = FALSE
    /\ pc = [p \in Procs |-> "ready"]
    /\ dest = [p \in Procs |-> NoDest]
    /\ lcl_ova_sum_val = [p \in Procs |-> None]
    /\ rem_ova_sum_val = [p \in Procs |-> None]
    /\ resp = [p \in Procs |-> NoResp]
    /\ registered = [p \in Procs |-> FALSE]
    /\ exc = [p \in Procs |-> "none"]
    /\ log = [p \in Procs |-> <<>>]
    /\ reported = [p \in Procs |-> NoUrl]
    /\ status = [p \in Procs |-> -1]
    /\ runs = 0
    /\ stable = FALSE

\* one build directory, in which the script is run again and again
Init ==
    /\ faults = TRUE
    /\ manifest = ReleaseManifest
    /\ \E b \in Builds \cup {Unbuilt} : lcl = [p \in Procs |-> b]
    /\ InitRun

-----------------------------------------------------------------------------
(* main() *)

\* an exception leaves main(): the interpreter goes on to its exit handlers
Raise(p, e) ==
    /\ exc' = [exc EXCEPT ![p] = e]
    /\ pc' = [pc EXCEPT ![p] = "atexit"]

\* lines 56-88: load the manifest, name the destination
Resolve(p) ==
    /\ pc[p] = "ready"
    /\ runs < MaxRuns
    /\ runs' = runs + 1
    /\ dest' = [dest EXCEPT ![p] =
                   [upload_dir |-> UploadDir(manifest.version),
                    gcs_ova |-> GcsOva(manifest),
                    url_ova |-> UrlOva(manifest)]]
    /\ pc' = [pc EXCEPT ![p] = "local"]
    /\ UNCHANGED <<faults, manifest, lcl, remote, cred, lcl_ova_sum_val,
                   rem_ova_sum_val, resp, registered, exc, log, reported,
                   status, stable>>

\* line 91: open() raises IOError when the sidecar is missing
ReadLocal(p) ==
    /\ pc[p] = "local"
    /\ IF lcl[p].sum.exists
       THEN /\ lcl_ova_sum_val' =
                   [lcl_ova_sum_val EXCEPT
                       ![p] = Some(get_local_checksum(lcl[p].sum.text))]
            /\ pc' = [pc EXCEPT ![p] = "remote"]
            /\ exc' = exc
       ELSE /\ Raise(p, "IOError")
            /\ lcl_ova_sum_val' = lcl_ova_sum_val
    /\ UNCHANGED <<faults, manifest, lcl, remote, cred, dest,
                   rem_ova_sum_val, resp, registered, log, reported, status,
                   runs, stable>>

\* line 93: requests.get raises on a transport failure, and nothing in
\* get_remote_checksum or main catches it
Fetch(p) ==
    /\ pc[p] = "remote"
    /\ \E o \in HttpOutcomes(remote) :
          /\ resp' = [resp EXCEPT ![p] = o]
          /\ IF o.kind = "response"
             THEN /\ rem_ova_sum_val' =
                         [rem_ova_sum_val EXCEPT
                             ![p] = get_remote_checksum(o)]
                  /\ pc' = [pc EXCEPT ![p] = "compare"]
                  /\ exc' = exc
             ELSE /\ Raise(p, o.kind)
                  /\ rem_ova_sum_val' = rem_ova_sum_val
    /\ UNCHANGED <<faults, manifest, lcl, remote, cred, dest, lcl_ova_sum_val,
                   registered, log, reported, status, runs, stable>>

\* lines 95-98: equal checksums: report the URL and return
CompareStep(p, equal) ==
    /\ pc[p] = "compare"
    /\ IF equal
       THEN /\ reported' = [reported EXCEPT ![p] = dest[p].url_ova]
            /\ pc' = [pc EXCEPT ![p] = "atexit"]
       ELSE /\ reported' = reported
            /\ pc' = [pc EXCEPT ![p] = "activate"]
    /\ UNCHANGED <<faults, manifest, lcl, remote, cred, dest, lcl_ova_sum_val,
                   rem_ova_sum_val, resp, registered, exc, log, status,
                   runs, stable>>

Compare(p) == CompareStep(p, lcl_ova_sum_val[p] = rem_ova_sum_val[p])

\* lines 100-102: check_call raises when gcloud fails; the exit handler is
\* registered after the activation (early: before it)
ActivateStep(p, early) ==
    /\ pc[p] = "activate"
    /\ \E rc \in GcloudRcs :
          /\ log' = [log EXCEPT ![p] = Append(@, Call("activate", rc))]
          /\ IF rc = 0
             THEN /\ cred' = TRUE
                  /\ registered' = [registered EXCEPT ![p] = TRUE]
                  /\ pc' = [pc EXCEPT ![p] = "cp_ova"]
                  /\ exc' = exc
             ELSE /\ cred' = cred
                  /\ registered' = [registered EXCEPT ![p] = early]
                  /\ Raise(p, "CalledProcessError")
    /\ UNCHANGED <<faults, manifest, lcl, remote, dest, lcl_ova_sum_val,
                   rem_ova_sum_val, resp, reported, status, runs, stable>>

\* a variant that registers the exit handler before it activates
ActivateRegisterFirst(p) == ActivateStep(p, TRUE)

Activate(p) == ActivateStep(p, FALSE)

\* lines 105-106: gsutil cp of the OVA; check_call raises when it fails
\* (checked = FALSE: its exit status is not looked at)
CopyOvaStep(p, checked) ==
    /\ pc[p] = "cp_ova"
    /\ \E rc \in CopyRcs(cred) :
          /\ log' = [log EXCEPT ![p] = Append(@, Call("cp_ova", rc))]
          /\ remote' = IF rc = 0
                       THEN [remote EXCEPT !.ova = lcl[p].ova]
                       ELSE remote
          /\ IF rc = 0 \/ ~checked
             THEN /\ pc' = [pc EXCEPT ![p] = "cp_sum"]
                  /\ exc' = exc
             ELSE Raise(p, "CalledProcessError")
    /\ UNCHANGED <<faults, manifest, lcl, cred, dest, lcl_ova_sum_val,
                   rem_ova_sum_val, resp, registered, reported, status,
                   runs, stable>>

\* a variant that uses subprocess.call
CopyOvaUnchecked(p) == CopyOvaStep(p, FALSE)

CopyOva(p) == CopyOvaStep(p, TRUE)

\* lines 107-108: gsutil cp of the sidecar
CopySumStep(p, checked) ==
    /\ pc[p] = "cp_sum"
    /\ \E rc \in CopyRcs(cred) :
          /\ log' = [log EXCEPT ![p] = Append(@, Call("cp_sum", rc))]
          /\ remote' = IF rc = 0
                       THEN [remote EXCEPT !.sum = lcl[p].sum]
                       ELSE remote
          /\ IF rc = 0 \/ ~checked
             THEN /\ pc' = [pc EXCEPT ![p] = "report"]
                  /\ exc' = exc
             ELSE Raise(p, "CalledProcessError")
    /\ UNCHANGED <<faults, manifest, lcl, cred, dest, lcl_ova_sum_val,
                   rem_ova_sum_val, resp, registered, reported, status,
                   runs, stable>>

\* a variant that uses subprocess.call
CopySumUnchecked(p) == CopySumStep(p, FALSE)

CopySum(p) == CopySumStep(p, TRUE)

\* line 110
Report(p) ==
    /\ pc[p] = "report"
    /\ reported' = [reported EXCEPT ![p] = dest[p].url_ova]
    /\ pc' = [pc EXCEPT ![p] = "atexit"]
    /\ UNCHANGED <<faults, manifest, lcl, remote, cred, dest, lcl_ova_sum_val,
                   rem_ova_sum_val, resp, registered, exc, log, status,
                   runs, stable>>

\* lines 122-123: subprocess.call returns gcloud's exit status, which is
\* dropped (checked = TRUE: a failure raises)
DeactivateStep(p, rc, checked) ==
    /\ log' = [log EXCEPT ![p] = Append(@, Call("revoke", rc))]
    /\ cred' = IF rc = 0 THEN FALSE ELSE cred
    /\ exc' = IF checked /\ rc # 0
              THEN [exc EXCEPT ![p] = "CalledProcessError"]
              ELSE exc

\* a variant that uses subprocess.check_call
deactivate_checked(p, rc) == DeactivateStep(p, rc, TRUE)

deactivate_service_account(p, rc) == DeactivateStep(p, rc, FALSE)

\* the interpreter ends: the registered exit handler runs, and the exit
\* status is 1 when an exception left main()
AtExit(p) ==
    /\ pc[p] = "atexit"
    /\ IF registered[p]
       THEN \E rc \in GcloudRcs : deactivate_service_account(p, rc)
       ELSE UNCHANGED <<log, cred, exc>>
    /\ status' = [status EXCEPT ![p] = ExitStatus(exc'[p])]
    /\ pc' = [pc EXCEPT ![p] = "done"]
    /\ UNCHANGED <<faults, manifest, lcl, remote, dest, lcl_ova_sum_val,
                   rem_ova_sum_val, resp, registered, reported, runs,
                   stable>>

-----------------------------------------------------------------------------
(* Between runs *)

Invoked(l, op) == {i \in 1..Len(l) : l[i].op = op}
Succeeded(l, op) == {i \in Invoked(l, op) : l[i].rc = 0}
Failed(l, op) == {i \in Invoked(l, op) : l[i].rc # 0}

\* both copies of the run were made
FullyPublished(l) == Succeeded(l, "cp_ova") # {} /\ Succeeded(l, "cp_sum") # {}

\* lines 138-139: the script is started again in the same build directory
NewRun(p) ==
    /\ pc[p] = "done"
    /\ runs < MaxRuns
    /\ stable' = FullyPublished(log[p])
    /\ pc' = [pc EXCEPT ![p] = "ready"]
    /\ dest' = [dest EXCEPT ![p] = NoDest]
    /\ lcl_ova_sum_val' = [lcl_ova_sum_val EXCEPT ![p] = None]
    /\ rem_ova_sum_val' = [rem_ova_sum_val EXCEPT ![p] = None]
    /\ resp' = [resp EXCEPT ![p] = NoResp]
    /\ registered' = [registered EXCEPT ![p] = FALSE]
    /\ exc' = [exc EXCEPT ![p] = "none"]
    /\ log' = [log EXCEPT ![p] = <<>>]
    /\ reported' = [reported EXCEPT ![p] = NoUrl]
    /\ status' = [status EXCEPT ![p] = -1]
    /\ UNCHANGED <<faults, manifest, lcl, remote, cred, runs>>

\* Packer builds the same version again: another OVA, and its sidecar in
\* the layout the build writes
Rebuild(p) ==
    /\ pc[p] = "ready"
    /\ runs > 0
    /\ \E t \in Templates, a \in Artifacts :
          /\ lcl[p] = Build(t, lcl[p].ova)
          /\ a # lcl[p].ova
          /\ lcl' = [lcl EXCEPT ![p] = Build(t, a)]
    /\ stable' = FALSE
    /\ UNCHANGED <<faults, manifest, remote, cred, pc, dest, lcl_ova_sum_val,
                   rem_ova_sum_val, resp, registered, exc, log, reported,
                   status, runs>>

-----------------------------------------------------------------------------
(* Specifications *)

Step(p) ==
    \/ Resolve(p)
    \/ ReadLocal(p)
    \/ Fetch(p)
    \/ Compare(p)
    \/ Activate(p)
    \/ CopyOva(p)
    \/ CopySum(p)
    \/ Report(p)
    \/ AtExit(p)

\* the runs against one destination, one after the other
Next == Step(1) \/ NewRun(1) \/ Rebuild(1)

Spec == Init /\ [][Next]_vars

\* two runs at once on one machine, each from its own build directory
InitConc ==
    /\ faults = FALSE
    /\ manifest = ReleaseManifest
    /\ lcl \in [Procs -> PlainBuilds]
    /\ InitRun

NextConc == \E p \in Procs : Step(p)

SpecConc == InitConc /\ [][NextConc]_vars

\* the version strings the destination is computed for
VerAlphabet == {"v", "1", ".", "-", "\n"}

Examples ==
    { <<"v", "1", ".", "2", ".", "3">>,
      <<"1", ".", "2", ".", "3">>,
      <<"v", "1", ".", "2", ".", "3", "-", "4">>,
      <<"v", "1", ".", "2", ".", "3", "-", "r", "c", ".", "1">>,
      <<"1", ".", "2">>,
      <<"v", "1", ".", "2", ".", "3", ".", "4">> }

Versions == (Strings(VerAlphabet, MaxVerLen) \ {<<>>}) \cup Examples

InitResolve ==
    /\ faults = TRUE
    /\ \E v \in Versions : manifest = [name |-> "ubuntu", version |-> v]
    /\ lcl = [p \in Procs |-> Unbuilt]
    /\ InitRun

NextResolve == Resolve(1)

SpecResolve == InitResolve /\ [][NextResolve]_vars

-----------------------------------------------------------------------------
(* Properties *)

Card(S) == Cardinality(S)

\* the response of the storage host carries a 2xx status
Is2xx(r) ==
    r.kind = "response" /\ r.status_code >= 200 /\ r.status_code <= 299

\* run p is past line 95
Decided(p) ==
    pc[p] \in {"activate", "cp_ova", "cp_sum", "report", "atexit", "done"}

\* run p has fetched a 2xx body that, stripped, is its local checksum
RemoteEqualsLocal(p) ==
    /\ lcl_ova_sum_val[p].some
    /\ Is2xx(resp[p])
    /\ Strip(resp[p].text) = lcl_ova_sum_val[p].val

CopyFailures(l) == Failed(l, "cp_ova") \cup Failed(l, "cp_sum")

\* C1: a run that read its local checksum and fetched a 2xx body whose
\* stripped text equals it goes straight to the end: it reports the download
\* URL, raises nothing, exits 0, and invokes no external command at all
\* (no activation, no copy, no revocation).
C1_SkipOnEqualChecksum ==
    \A p \in Procs :
        (Decided(p) /\ RemoteEqualsLocal(p)) =>
            /\ pc[p] \in {"atexit", "done"}
            /\ log[p] = <<>>
            /\ exc[p] = "none"
            /\ reported[p] = UrlOva(manifest)
            /\ (pc[p] = "done" => status[p] = 0)

\* a second run that skipped after the first one published
C1_Witness ==
    /\ pc[1] = "done"
    /\ runs = 2
    /\ RemoteEqualsLocal(1)
    /\ status[1] = 0
    /\ log[1] = <<>>
    /\ remote.sum.exists

\* C2: in every run the artifact copy directly follows a successful
\* activation and the checksum copy directly follows a successful artifact
\* copy; after a failed artifact copy no checksum copy is invoked.
C2_PublishOrder ==
    \A p \in Procs :
        /\ \A i \in 1..Len(log[p]) :
              /\ log[p][i].op = "cp_ova" =>
                    /\ i > 1
                    /\ log[p][i - 1].op = "activate"
                    /\ log[p][i - 1].rc = 0
              /\ log[p][i].op = "cp_sum" =>
                    /\ i > 1
                    /\ log[p][i - 1].op = "cp_ova"
                    /\ log[p][i - 1].rc = 0
        /\ Failed(log[p], "cp_ova") # {} => Invoked(log[p], "cp_sum") = {}
        /\ Card(Invoked(log[p], "activate")) <= 1

\* a run whose artifact copy failed has ended without a checksum copy
C2_Witness ==
    /\ pc[1] = "done"
    /\ Succeeded(log[1], "activate") # {}
    /\ Failed(log[1], "cp_ova") # {}
    /\ Invoked(log[1], "cp_sum") = {}

\* C3: revocation is never invoked twice in a run, and only as the last
\* command; a run that has ended invoked it once if its activation
\* succeeded and not at all otherwise.
C3_RevokeExactlyOnce ==
    \A p \in Procs :
        /\ Invoked(log[p], "revoke") \subseteq {Len(log[p])}
        /\ Invoked(log[p], "revoke") # {} => pc[p] = "done"
        /\ pc[p] = "done" =>
              Card(Invoked(log[p], "revoke")) =
                  IF Succeeded(log[p], "activate") # {} THEN 1 ELSE 0

\* the checksum copy failed after a successful activation and artifact copy,
\* and the run revoked once
C3_Witness ==
    /\ pc[1] = "done"
    /\ Succeeded(log[1], "activate") # {}
    /\ Failed(log[1], "cp_sum") # {}
    /\ Card(Invoked(log[1], "revoke")) = 1

\* C4 (as claimed): fetching the remote checksum never aborts the run;
\* after any non-2xx response or transport failure the remote checksum is
\* absent and the run goes on to the publish path, as for a 404.
C4_FetchNeverAborts ==
    \A p \in Procs :
        (resp[p].kind # "none" /\ ~Is2xx(resp[p])) =>
            /\ rem_ova_sum_val[p] = None
            /\ exc[p] \notin {"ConnectionError"}
            /\ pc[p] \in {"atexit", "done"} =>
                  Invoked(log[p], "activate") # {}

\* C5 (as claimed): a run started after a run that published in full, in an
\* unchanged build directory, and answered by the bucket, reads a remote
\* checksum equal to the local one, skips, and invokes no command.
C5_SecondRunSkips ==
    \A p \in Procs :
        (stable /\ Decided(p) /\ Is2xx(resp[p])) =>
            /\ lcl_ova_sum_val[p] = rem_ova_sum_val[p]
            /\ log[p] = <<>>

\* the pattern of the claim: v?, digits, ".", digits, ".", digits, and an
\* optional "-" digits, all of the string
ClaimedRelease(s) ==
    LET p0 == Opt(s, {1}, {"v"})
        p1 == Many1(s, p0, Digit)
        p2 == One(s, p1, {"."})
        p3 == Many1(s, p2, Digit)
        p4 == One(s, p3, {"."})
        p5 == Many1(s, p4, Digit)
        p6 == p5 \cup Many1(s, One(s, p5, {"-"}), Digit)
    IN  Len(s) + 1 \in p6

\* C6 (as claimed): the upload directory is "release" exactly when the
\* whole version string has the claimed shape, and "ci" otherwise.
C6_ReleaseIffPattern ==
    \A p \in Procs :
        dest[p] # NoDest =>
            dest[p].upload_dir =
                IF ClaimedRelease(manifest.version) THEN "release" ELSE "ci"

\* C7 (as claimed): a run in which a copy failed exits with the status of
\* the gsutil that failed; a run exits 0 only after a skip or two copies.
C7_ExitWithToolStatus ==
    \A p \in Procs :
        pc[p] = "done" =>
            /\ \A i \in CopyFailures(log[p]) : status[p] = log[p][i].rc
            /\ status[p] = 0 =>
                  (RemoteEqualsLocal(p) \/ FullyPublished(log[p]))

\* C7 (amended): a run in which a copy failed exits with status 1, the
\* interpreter's status for the uncaught CalledProcessError, whatever the
\* status of gsutil was; a run exits 0 only after a skip or two copies.
C7_ExitOneOnCopyFailure ==
    \A p \in Procs :
        pc[p] = "done" =>
            /\ CopyFailures(log[p]) # {} => status[p] = 1
            /\ status[p] = 0 =>
                  (RemoteEqualsLocal(p) \/ FullyPublished(log[p]))

\* gsutil failed with status 2 on the checksum copy and the run exited 1
C7_Witness ==
    /\ pc[1] = "done"
    /\ \E i \in Failed(log[1], "cp_sum") : log[1][i].rc = 2
    /\ status[1] = 1

\* C8: the exit status and the reported URL of a run that revoked are
\* those its copies decide, whatever the status of the revocation: 0 and
\* the download URL after two copies, 1 and no URL after a failed copy.
C8_RevokeOutcomeIgnored ==
    \A p \in Procs :
        (pc[p] = "done" /\ Invoked(log[p], "revoke") # {}) =>
            IF FullyPublished(log[p])
            THEN status[p] = 0 /\ reported[p] = UrlOva(manifest)
            ELSE status[p] = 1 /\ reported[p] = NoUrl

\* both copies were made, the revocation failed, and the run exited 0
C8_Witness ==
    /\ pc[1] = "done"
    /\ FullyPublished(log[1])
    /\ Failed(log[1], "revoke") # {}
    /\ status[1] = 0
    /\ reported[1] = UrlOva(manifest)

\* the checksum object is the checksum of the artifact object
RemoteConsistent ==
    remote.sum.exists =>
        /\ remote.ova # NoOva
        /\ get_local_checksum(remote.sum.text) = Digest(remote.ova)

\* C9 (as claimed): with two runs at once, no copy runs without the
\* credential its run activated (the other run's revocation does not make
\* it fail), and once both runs have ended the checksum object is the
\* checksum of the artifact object.
C9_NoCorruption ==
    /\ \A p \in Procs : \A i \in 1..Len(log[p]) :
          log[p][i].op \in {"cp_ova", "cp_sum"} => log[p][i].auth
    /\ (\A p \in Procs : pc[p] = "done") => RemoteConsistent

\* C10 (as claimed): in every state of the bucket a checksum object comes
\* with an artifact object of that checksum, and after a skip the remote
\* artifact is the local one.
C10_ChecksumMatchesArtifact ==
    /\ RemoteConsistent
    /\ \A p \in Procs :
          (Decided(p) /\ RemoteEqualsLocal(p)) => remote.ova = lcl[p].ova

=============================================================================
